---- MODULE Spec2Model ----
(***************************************************************************)
(* Model of the pointer-chase latency kernel gpu_stride_kernel             *)
(* (microbench/cudautils/memory_latency.cu) and of the two log2 helpers    *)
(* log2_floor_power_of_two / log2_ceil_power_of_two.                       *)
(*                                                                         *)
(* The kernel is one device thread; every statement of the kernel is one   *)
(* step of the state machine.  uint32_t is modelled as WordBits-bit        *)
(* unsigned arithmetic and uint64_t as 2*WordBits-bit unsigned arithmetic, *)
(* so that the wrap-around of the dependency sum, of the hop counter and   *)
(* of the stored quotient is within reach of the model checker.  The log2  *)
(* helpers use the real 32-bit width of __clz.                             *)
(***************************************************************************)
EXTENDS Integers, Sequences, FiniteSets, TLC

VARIABLES data, iterations, pc, i, pos, dependency, start, stop, sum,
          data0, trace, oob, divz,
          x, floorRes, ceilRes

kvars == <<data, iterations, pc, i, pos, dependency, start, stop, sum,
           data0, trace, oob, divz>>
lvars == <<x, floorRes, ceilRes>>
vars == <<data, iterations, pc, i, pos, dependency, start, stop, sum,
          data0, trace, oob, divz, x, floorRes, ceilRes>>

---------------------------------------------------------------------------
(* Bounds *)

WordBits == 3
MinLen == 2
MaxLen == 3
MaxMalformedIter == 2
MaxStart == 1
MaxStop == 17
MaxX == 130

M32 == 2 ^ WordBits
M64 == 2 ^ (2 * WordBits)
Word32 == 0 .. (M32 - 1)

(* Words an out-of-range load may return: zero, one, all ones *)
StrayWords == {0, 1, M32 - 1}

---------------------------------------------------------------------------
(* Buffers are 0-indexed arrays: functions from 0..N-1 to uint32 values *)

Length(d) == Cardinality(DOMAIN d)

InRange(d) == \A j \in DOMAIN d : d[j] < Length(d)

InRangeBuffers == UNION { [0 .. (n - 1) -> 0 .. (n - 1)] : n \in MinLen .. MaxLen }

MalformedBuffers ==
    { d \in UNION { [0 .. (n - 1) -> 0 .. n] : n \in MinLen .. MaxLen } : ~InRange(d) }

---------------------------------------------------------------------------
(* The statements of gpu_stride_kernel *)

LoopCondOffByOne(c, n) == c <= n
LoopCond(c, n) == c < n

InBounds(d, p) == p \in DOMAIN d

NextPosShifted(d, p) == (d[p] + 1) % M32
NextPos(d, p) == d[p]

AccumulateAssign(dep, p) == p
Accumulate(dep, p) == (dep + p) % M32

ResetPosMissing(p) == p
ResetPos(p) == IF p # 0 THEN 0 ELSE p

Elapsed(s, t0, t1) == (s + ((M64 + t1 - t0) % M64)) % M64

AverageRoundUp(s, n) == ((s + n - 1) \div n) % M32
Average(s, n) == (s \div n) % M32

StoreResult(d, v) == [d EXCEPT ![0] = v]

GuardCondNonZero(p) == p # 0
GuardCond(p) == p = 1

StoreSinkShifted(d, dep) == IF 2 \in DOMAIN d THEN [d EXCEPT ![2] = dep] ELSE [d EXCEPT ![1] = dep]
StoreSink(d, dep) == [d EXCEPT ![1] = dep]

Fault ==
    /\ pc' = "fault"
    /\ UNCHANGED <<data, iterations, i, pos, dependency, start, stop, sum,
                   data0, trace, divz>>

Loaded(phase, v) ==
    /\ pos' = v
    /\ dependency' = Accumulate(dependency, v)
    /\ i' = (i + 1) % M32
    /\ trace' = [trace EXCEPT ![phase] = Append(@, <<pos, v>>)]
    /\ UNCHANGED <<data, iterations, pc, start, stop, sum, data0, divz>>

ChaseHop(phase) ==
    /\ pc = phase
    /\ LoopCond(i, iterations)
    /\ IF InBounds(data, pos)
         THEN /\ Loaded(phase, NextPos(data, pos))
              /\ UNCHANGED oob
         ELSE /\ oob' = TRUE
              /\ \/ \E g \in StrayWords : Loaded(phase, g)
                 \/ Fault

WarmupHop == ChaseHop("warmup")

WarmupExit ==
    /\ pc = "warmup"
    /\ ~LoopCond(i, iterations)
    /\ pc' = "reset"
    /\ UNCHANGED <<data, iterations, i, pos, dependency, start, stop, sum,
                   data0, trace, oob, divz>>

ResetPosition ==
    /\ pc = "reset"
    /\ pos' = ResetPos(pos)
    /\ pc' = "start"
    /\ UNCHANGED <<data, iterations, i, dependency, start, stop, sum,
                   data0, trace, oob, divz>>

SampleStart ==
    /\ pc = "start"
    /\ \E t \in 0 .. MaxStart : start' = t
    /\ i' = 0
    /\ pc' = "measure"
    /\ UNCHANGED <<data, iterations, pos, dependency, stop, sum,
                   data0, trace, oob, divz>>

MeasureHop == ChaseHop("measure")

MeasureExit ==
    /\ pc = "measure"
    /\ ~LoopCond(i, iterations)
    /\ pc' = "stop"
    /\ UNCHANGED <<data, iterations, i, pos, dependency, start, stop, sum,
                   data0, trace, oob, divz>>

SampleStop ==
    /\ pc = "stop"
    /\ \E t \in 0 .. MaxStop :
          /\ stop' = t
          /\ sum' = Elapsed(sum, start, t)
    /\ pc' = "write"
    /\ UNCHANGED <<data, iterations, i, pos, dependency, start,
                   data0, trace, oob, divz>>

WriteResult ==
    /\ pc = "write"
    /\ IF iterations # 0
         THEN /\ data' = StoreResult(data, Average(sum, iterations))
              /\ pc' = "guard"
              /\ UNCHANGED divz
         ELSE /\ divz' = TRUE
              /\ \/ /\ \E g \in Word32 : data' = StoreResult(data, g)
                    /\ pc' = "guard"
                 \/ /\ pc' = "fault"
                    /\ UNCHANGED data
    /\ UNCHANGED <<iterations, i, pos, dependency, start, stop, sum,
                   data0, trace, oob>>

GuardedSinkWrite ==
    /\ pc = "guard"
    /\ data' = IF GuardCond(pos) THEN StoreSink(data, dependency) ELSE data
    /\ pc' = "done"
    /\ UNCHANGED <<iterations, i, pos, dependency, start, stop, sum,
                   data0, trace, oob, divz>>

KernelLocals ==
    /\ sum = 0
    /\ start = 0
    /\ stop = 0
    /\ pos = 0
    /\ dependency = 0
    /\ i = 0
    /\ trace = [warmup |-> <<>>, measure |-> <<>>]
    /\ oob = FALSE
    /\ divz = FALSE

LogIdle ==
    /\ x = 1
    /\ floorRes = -1
    /\ ceilRes = -1

Init ==
    /\ \/ /\ data0 \in InRangeBuffers
          /\ iterations \in Word32
       \/ /\ data0 \in MalformedBuffers
          /\ iterations \in 0 .. MaxMalformedIter
    /\ data = data0
    /\ pc = "warmup"
    /\ KernelLocals
    /\ LogIdle

Next ==
    \/ (WarmupHop /\ UNCHANGED lvars)
    \/ (WarmupExit /\ UNCHANGED lvars)
    \/ (ResetPosition /\ UNCHANGED lvars)
    \/ (SampleStart /\ UNCHANGED lvars)
    \/ (MeasureHop /\ UNCHANGED lvars)
    \/ (MeasureExit /\ UNCHANGED lvars)
    \/ (SampleStop /\ UNCHANGED lvars)
    \/ (WriteResult /\ UNCHANGED lvars)
    \/ (GuardedSinkWrite /\ UNCHANGED lvars)

Spec == Init /\ [][Next]_vars

FairSpec == Spec /\ WF_vars(Next)

---------------------------------------------------------------------------
(* The log2 helpers: __clz counts the leading zero bits of a 32-bit word *)

RECURSIVE BitLength(_)
BitLength(v) == IF v = 0 THEN 0 ELSE 1 + BitLength(v \div 2)

Clz(v) == IF v < 0 THEN 0 ELSE 32 - BitLength(v)

log2_floor_power_of_two(v) == 32 - Clz(v) - 1

log2_ceil_no_decrement(v) == 32 - Clz(v)
log2_ceil_power_of_two(v) == 32 - Clz(v - 1)

LargeX == {2 ^ 30 - 1, 2 ^ 30}

KernelIdle ==
    /\ data0 = [j \in 0 .. 1 |-> 1 - j]
    /\ data = data0
    /\ iterations = 1
    /\ pc = "idle"
    /\ KernelLocals

InitLog ==
    /\ x \in (1 .. MaxX) \cup LargeX
    /\ floorRes = -1
    /\ ceilRes = -1
    /\ KernelIdle

CallFloor ==
    /\ floorRes = -1
    /\ floorRes' = log2_floor_power_of_two(x)
    /\ UNCHANGED <<x, ceilRes>>
    /\ UNCHANGED kvars

CallCeil ==
    /\ ceilRes = -1
    /\ ceilRes' = log2_ceil_power_of_two(x)
    /\ UNCHANGED <<x, floorRes>>
    /\ UNCHANGED kvars

NextLog == CallFloor \/ CallCeil

SpecLog == InitLog /\ [][NextLog]_vars

---------------------------------------------------------------------------
(* Vocabulary of the properties *)

RECURSIVE Iter(_, _, _)
Iter(d, k, p) == IF k = 0 THEN p ELSE Iter(d, k - 1, d[p])

RECURSIVE Walk(_, _, _)
Walk(d, k, p) ==
    IF k = 0 \/ p \notin DOMAIN d THEN p ELSE Walk(d, k - 1, d[p])

IsSingleCycle(d) ==
    /\ InRange(d)
    /\ Iter(d, Length(d), 0) = 0
    /\ \A k \in 1 .. (Length(d) - 1) : Iter(d, k, 0) # 0

ReachesOutOfRange(d) == \E k \in 1 .. Length(d) : Walk(d, k, 0) \notin DOMAIN d

RECURSIVE SumValues(_)
SumValues(s) == IF s = <<>> THEN 0 ELSE (s[1][2] + SumValues(Tail(s))) % M32

IsPowerOfTwo(v) == \E k \in 0 .. 30 : v = 2 ^ k

BeforeWrite == {"warmup", "reset", "start", "measure", "stop", "write"}
AfterMeasure == {"stop", "write", "guard", "done"}

---------------------------------------------------------------------------
(* C1: for a single-cycle permutation of length N >= 2 and iterations > 0, *)
(* when the kernel has completed every buffer element at an index >= 2     *)
(* equals its value before the call.                                       *)
C1Theorem ==
    (IsSingleCycle(data0) /\ iterations > 0 /\ pc = "done")
        => \A j \in DOMAIN data : j >= 2 => data[j] = data0[j]

C1Witness ==
    /\ pc = "done"
    /\ IsSingleCycle(data0)
    /\ iterations > 0
    /\ Length(data0) >= 3
    /\ data[0] # data0[0]
    /\ data[1] # data0[1]

(* C2 as stated: for iterations > 0 and stop >= start the value left in    *)
(* buffer[0] is exactly the quotient (stop - start) / iterations.          *)
C2Original ==
    (pc = "done" /\ iterations > 0 /\ stop >= start)
        => data[0] = (stop - start) \div iterations

(* C2 amended: for iterations > 0 and stop >= start the value left in      *)
(* buffer[0] is the truncated quotient (stop - start) / iterations reduced *)
(* modulo the width of a buffer element (the quotient itself whenever it   *)
(* fits in a buffer element).                                              *)
C2Theorem ==
    (pc = "done" /\ iterations > 0 /\ stop >= start)
        => /\ data[0] = ((stop - start) \div iterations) % M32
           /\ ((stop - start) \div iterations < M32
                 => data[0] = (stop - start) \div iterations)

C2Witness ==
    /\ pc = "done"
    /\ iterations > 1
    /\ stop > start
    /\ (stop - start) % iterations # 0
    /\ data[0] > 0
    /\ data[0] = (stop - start) \div iterations

(* C3 as stated: for a single-cycle permutation and iterations > 0 the     *)
(* Chain Position after the measurement phase is never 1 and buffer[1]     *)
(* keeps its original value.                                               *)
C3Original ==
    (IsSingleCycle(data0) /\ iterations > 0)
        => /\ (pc \in AfterMeasure => pos # 1)
           /\ (pc = "done" => data[1] = data0[1])

(* C3 amended: for a single-cycle permutation and iterations > 0 the       *)
(* Chain Position after the measurement phase is the iterations-fold image *)
(* of 0 under the buffer mapping; the guarded write executes exactly when  *)
(* that position is 1 and then stores the Dependency Sink in buffer[1],    *)
(* otherwise buffer[1] keeps its original value.                           *)
C3Theorem ==
    (IsSingleCycle(data0) /\ iterations > 0)
        => /\ (pc \in AfterMeasure => pos = Iter(data0, iterations, 0))
           /\ (pc = "done" =>
                 data[1] = IF Iter(data0, iterations, 0) = 1
                             THEN dependency
                             ELSE data0[1])

C3Witness ==
    /\ pc = "done"
    /\ IsSingleCycle(data0)
    /\ iterations > 0
    /\ pos = 1
    /\ data[1] = dependency
    /\ data[1] # data0[1]

(* C4: for x >= 1, floor_log2(x) is the largest k with 2^k <= x and        *)
(* ceil_log2(x) the smallest k with 2^k >= x; floor <= ceil with equality  *)
(* exactly when x is a power of two; both are 0 for x = 1.                 *)
C4Theorem ==
    /\ floorRes # -1 =>
         /\ floorRes \in 0 .. 30
         /\ 2 ^ floorRes <= x
         /\ x \div 2 < 2 ^ floorRes
         /\ (x = 1 => floorRes = 0)
    /\ ceilRes # -1 =>
         /\ ceilRes \in 0 .. 30
         /\ 2 ^ ceilRes >= x
         /\ (ceilRes > 0 => 2 ^ (ceilRes - 1) < x)
         /\ (x = 1 => ceilRes = 0)
    /\ (floorRes # -1 /\ ceilRes # -1) =>
         /\ floorRes <= ceilRes
         /\ (floorRes = ceilRes <=> IsPowerOfTwo(x))

C4Witness ==
    /\ x = 9
    /\ floorRes = 3
    /\ ceilRes = 4

(* C5: for an in-range buffer and any iterations, the measurement phase    *)
(* starts at Chain Position 0 and hop k of the measurement phase reads the *)
(* same index and yields the same value as hop k of the warm-up phase; no  *)
(* buffer element is written until both phases have finished.              *)
C5Theorem ==
    InRange(data0) =>
        /\ (pc \in BeforeWrite => data = data0)
        /\ (pc = "measure" /\ i = 0 => pos = 0)
        /\ Len(trace.measure) <= Len(trace.warmup)
        /\ \A k \in 1 .. Len(trace.measure) : trace.measure[k] = trace.warmup[k]
        /\ (pc \in AfterMeasure => trace.measure = trace.warmup)

C5Witness ==
    /\ InRange(data0)
    /\ pc = "stop"
    /\ Len(trace.warmup) >= 2
    /\ trace.warmup[Len(trace.warmup)][2] # 0
    /\ trace.measure = trace.warmup

(* C6: each phase performs exactly `iterations` hops position <-           *)
(* buffer[position] starting from position 0, so at the end of a phase the *)
(* Chain Position is the iterations-fold image of 0, and every hop adds    *)
(* the new position to the Dependency Sink (wrapping sum).                 *)
C6Theorem ==
    InRange(data0) =>
        /\ \A ph \in {"warmup", "measure"} :
              \A k \in 1 .. Len(trace[ph]) :
                 trace[ph][k] = <<Iter(data0, k - 1, 0), Iter(data0, k, 0)>>
        /\ dependency = (SumValues(trace.warmup) + SumValues(trace.measure)) % M32
        /\ (pc = "reset" =>
              /\ Len(trace.warmup) = iterations
              /\ pos = Iter(data0, iterations, 0))
        /\ (pc = "stop" =>
              /\ Len(trace.measure) = iterations
              /\ pos = Iter(data0, iterations, 0))

C6Witness ==
    /\ InRange(data0)
    /\ pc = "stop"
    /\ iterations = M32 - 1
    /\ pos = 2
    /\ dependency < SumValues(trace.warmup)

(* C7 as stated: whenever buffer[1] is written the value stored is the     *)
(* wrapping sum of the positions visited in the measurement phase only.    *)
C7Original ==
    (pc = "done" /\ pos = 1) => data[1] = SumValues(trace.measure)

(* C7 amended: the Dependency Sink is not reset between the phases, so     *)
(* whenever buffer[1] is written the value stored is the wrapping sum of   *)
(* the positions visited in the warm-up phase and in the measurement phase *)
(* together.                                                               *)
C7Theorem ==
    (pc = "done" /\ pos = 1)
        => data[1] = (SumValues(trace.warmup) + SumValues(trace.measure)) % M32

C7Witness ==
    /\ pc = "done"
    /\ pos = 1
    /\ SumValues(trace.warmup) # 0
    /\ data[1] # SumValues(trace.measure)
    /\ data[1] = (SumValues(trace.warmup) + SumValues(trace.measure)) % M32

(* C8: if every element of the buffer is an index in [0, N) then the Chain *)
(* Position is in [0, N) in every reachable state and no access is out of  *)
(* range; an out-of-range access happens only when the chain from index 0  *)
(* reaches an element >= N.                                                *)
C8Theorem ==
    /\ InRange(data0) =>
         /\ pos \in DOMAIN data
         /\ ~oob
         /\ {0, 1} \subseteq DOMAIN data
    /\ oob => ReachesOutOfRange(data0)

C8Witness ==
    /\ InRange(data0)
    /\ pc = "measure"
    /\ i >= 2
    /\ pos = Length(data0) - 1
    /\ Length(data0) = MaxLen

(* C9: for an in-range buffer and every iterations value up to the largest *)
(* one, the hop counter never wraps, both loops exit after exactly         *)
(* `iterations` hops and the kernel eventually reaches the result write.   *)
C9Theorem ==
    /\ [](InRange(data0) =>
            /\ i <= iterations
            /\ (pc = "warmup" => i = Len(trace.warmup))
            /\ (pc = "measure" => i = Len(trace.measure))
            /\ (pc \notin {"warmup"} => Len(trace.warmup) = iterations)
            /\ (pc \in AfterMeasure => Len(trace.measure) = iterations))
    /\ <>(InRange(data0) => pc = "write")

C9Witness ==
    /\ InRange(data0)
    /\ iterations = M32 - 1
    /\ pc = "write"
    /\ Len(trace.warmup) = M32 - 1
    /\ Len(trace.measure) = M32 - 1

(* C10: with iterations = 0 no hop is performed in either phase (Chain     *)
(* Position and Dependency Sink stay 0), the division by zero is reached   *)
(* before any buffer element has been written, and every run that gets     *)
(* past the result write has performed it unchecked.                       *)
C10Theorem ==
    iterations = 0 =>
        /\ trace.warmup = <<>>
        /\ trace.measure = <<>>
        /\ pos = 0
        /\ dependency = 0
        /\ ~oob
        /\ (pc \in BeforeWrite => data = data0 /\ ~divz)
        /\ (pc \in {"guard", "done", "fault"} => divz)

C10Witness ==
    /\ iterations = 0
    /\ pc = "done"
    /\ divz
    /\ data[0] # data0[0]

====
